---- MODULE Spec2Model ----
(***************************************************************************)
(* Model of joystick_xl/inputs.py: the Button, Axis and Hat input classes  *)
(* and the sources (GPIO pin or VirtualInput) they read.                   *)
(*                                                                         *)
(* The three classes share no state: every source is owned by exactly one  *)
(* input object.  A behaviour of the model therefore constructs ONE input  *)
(* object (any class, any configuration) and then applies any sequence of  *)
(* property reads, source_value writes and hardware pin changes to it.     *)
(***************************************************************************)
EXTENDS Integers, Sequences, FiniteSets

VARIABLES input, last, reads

vars == <<input, last, reads>>

(***************************************************************************)
(* Bounds of the model.                                                    *)
(***************************************************************************)
MaxMin == 1
MaxMax == 5
MaxDeadband == 1
MaxOff == 1

(***************************************************************************)
(* Program constants.                                                      *)
(***************************************************************************)
RestRaw == 32768
FullScale == 65535
DocDeadband == 250
OutMax == 127
OutSpan == 255

None == "None"
Pin == "Pin"
VirtualInput == "VirtualInput"
Kinds == {Pin, VirtualInput}

\* Hat position aliases
U == 0
UR == 1
R == 2
DR == 3
D == 4
DL == 5
L == 6
UL == 7
IDLE == 8

(***************************************************************************)
(* Python builtins used by Axis._update.                                   *)
(***************************************************************************)
Min2(a, b) == IF a <= b THEN a ELSE b
Max2(a, b) == IF a >= b THEN a ELSE b

(***************************************************************************)
(* Sources.  A source is [kind, value]; value is the raw reading.          *)
(***************************************************************************)
\* An isinstance test that lets every source through.
AnySourceWritable(s) == s.kind \in Kinds

IsVirtualInput(s) == s.kind = VirtualInput

\* _initialize_digital_source: a pin gives a DigitalInOut whose reading is
\* whatever the hardware holds; no pin gives VirtualInput(value=active_low).
InitializeDigitalSource(pin, active_low, reading) ==
    IF pin = Pin
    THEN [kind |-> Pin, value |-> reading]
    ELSE [kind |-> VirtualInput, value |-> active_low]

\* _initialize_analog_source: a pin gives an AnalogIn; no pin gives
\* VirtualInput(value=32768).
InitializeAnalogSource(pin, reading) ==
    IF pin = Pin
    THEN [kind |-> Pin, value |-> reading]
    ELSE [kind |-> VirtualInput, value |-> RestRaw]

(***************************************************************************)
(* Axis                                                                    *)
(***************************************************************************)
\* "account for deadband" step of Axis._update
AccountForDeadband(a, clamped) ==
    IF clamped < (a.raw_midpoint - a.deadband)
    THEN clamped - a.min
    ELSE IF clamped > (a.raw_midpoint + a.deadband)
         THEN clamped - (a.min - (a.deadband * 2))
         ELSE a.db_range \div 2

\* The scaling with the clamp to +/- 127 left out.
ScaleWithoutClamp(a, new_value) ==
    ((new_value * OutSpan) \div a.db_range - OutMax) * a.invert

\* "calculate scaled joystick-compatible value and clamp to +/- 127"
ScaleAndClamp(a, new_value) ==
    Min2(Max2((new_value * OutSpan) \div a.db_range - OutMax, -OutMax), OutMax)
        * a.invert

\* The value Axis._update computes for a raw sample once past the memo test.
Recompute(a, raw) ==
    ScaleAndClamp(a, AccountForDeadband(a, Min2(Max2(raw, a.min), a.max)))

\* The memo test of Axis._update.
MemoHit(a) == a.source.value = a.last_source_value

\* Axis._update: the axis after the call; its return value is the value field.
Axis_update(a) ==
    IF MemoHit(a)
    THEN a
    ELSE [a EXCEPT !.value = Recompute(a, a.source.value)]

\* Axis.__init__
Axis_init(pin, reading, deadband, min, max, invert) ==
    Axis_update(
        [class |-> "Axis",
         source |-> InitializeAnalogSource(pin, reading),
         deadband |-> deadband,
         min |-> min,
         max |-> max,
         invert |-> IF invert THEN -1 ELSE 1,
         value |-> 0,
         last_source_value |-> 0,
         raw_midpoint |-> min + ((max - min) \div 2),
         db_range |-> max - min - (deadband * 2)])

(***************************************************************************)
(* Button                                                                  *)
(***************************************************************************)
Button_init(pin, reading, active_low) ==
    [class |-> "Button",
     source |-> InitializeDigitalSource(pin, active_low, reading),
     active_low |-> active_low]

\* Button.value, Hat.up, Hat.down, Hat.left, Hat.right
Pressed(s, active_low) == s.value # active_low

(***************************************************************************)
(* Hat                                                                     *)
(***************************************************************************)
Directions == {"up", "down", "left", "right"}

\* The chain with the down rows tested before the up rows.
HatDecodeDownFirst(u, d, l, r) ==
    IF d /\ r THEN DR
    ELSE IF d /\ l THEN DL
    ELSE IF d THEN D
    ELSE IF u /\ r THEN UR
    ELSE IF u /\ l THEN UL
    ELSE IF u THEN U
    ELSE IF l THEN L
    ELSE IF r THEN R
    ELSE IDLE

\* the if/elif chain of Hat._update
HatDecode(u, d, l, r) ==
    IF u /\ r THEN UR
    ELSE IF u /\ l THEN UL
    ELSE IF u THEN U
    ELSE IF d /\ r THEN DR
    ELSE IF d /\ l THEN DL
    ELSE IF d THEN D
    ELSE IF l THEN L
    ELSE IF r THEN R
    ELSE IDLE

\* Hat._update
Hat_update(h) ==
    [h EXCEPT !.value = HatDecode(Pressed(h.up, h.active_low),
                                  Pressed(h.down, h.active_low),
                                  Pressed(h.left, h.active_low),
                                  Pressed(h.right, h.active_low))]

\* Hat.__init__
Hat_init(pins, readings, active_low) ==
    Hat_update(
        [class |-> "Hat",
         up |-> InitializeDigitalSource(pins["up"], active_low, readings["up"]),
         down |-> InitializeDigitalSource(pins["down"], active_low, readings["down"]),
         left |-> InitializeDigitalSource(pins["left"], active_low, readings["left"]),
         right |-> InitializeDigitalSource(pins["right"], active_low, readings["right"]),
         active_low |-> active_low,
         value |-> IDLE])

(***************************************************************************)
(* Inputs of the model.                                                    *)
(***************************************************************************)
\* Axis configurations: small ranges, the default full-scale range, and the
\* full-scale range with the docstring's example deadband.  All satisfy the
\* contract max - min > 2 * deadband.
AxisConfigs ==
    {c \in [min : 0 .. MaxMin, max : 1 .. MaxMax, deadband : 0 .. MaxDeadband] :
        c.max - c.min > 2 * c.deadband}
    \cup {[min |-> 0, max |-> FullScale, deadband |-> 0],
          [min |-> 0, max |-> FullScale, deadband |-> DocDeadband]}

\* Raw samples tried on an axis: the values around each landmark of its
\* configuration, plus the ends and the rest value of the 16-bit range.
Samples(a) ==
    {s \in {m + o : m \in {a.min, a.raw_midpoint - a.deadband, a.raw_midpoint,
                           a.raw_midpoint + a.deadband, a.max},
                    o \in (-MaxOff) .. MaxOff}
           \cup {0, RestRaw, FullScale} :
        s >= 0 /\ s <= FullScale}

Result(op, arg, ret, raised) ==
    [op |-> op, arg |-> arg, ret |-> ret, raised |-> raised]

Init ==
    /\ \/ \E pin \in Kinds, reading \in BOOLEAN, active_low \in BOOLEAN :
            input = Button_init(pin, reading, active_low)
       \/ \E pin \in Kinds, c \in AxisConfigs, invert \in BOOLEAN :
            \E reading \in Samples([min |-> c.min, max |-> c.max,
                                    deadband |-> c.deadband,
                                    raw_midpoint |-> c.min + ((c.max - c.min) \div 2)]) :
                input = Axis_init(pin, reading, c.deadband, c.min, c.max, invert)
       \/ \E pins \in [Directions -> Kinds], readings \in [Directions -> BOOLEAN],
             active_low \in BOOLEAN :
            input = Hat_init(pins, readings, active_low)
    /\ last = Result("__init__", None, None, None)
    /\ reads = <<>>

(***************************************************************************)
(* Operations on a Button.                                                 *)
(***************************************************************************)
Button_value ==
    /\ input.class = "Button"
    /\ last' = Result("Button.value", None, Pressed(input.source, input.active_low), None)
    /\ UNCHANGED <<input, reads>>

Button_source_value ==
    /\ input.class = "Button"
    /\ last' = Result("Button.source_value", None, input.source.value = TRUE, None)
    /\ UNCHANGED <<input, reads>>

Button_source_value_setter(value) ==
    /\ input.class = "Button"
    /\ IF ~IsVirtualInput(input.source)
       THEN /\ last' = Result("Button.source_value=", value, None, "TypeError")
            /\ UNCHANGED input
       ELSE /\ input' = [input EXCEPT !.source.value = value]
            /\ last' = Result("Button.source_value=", value, None, None)
    /\ UNCHANGED reads

Button_active_low ==
    /\ input.class = "Button"
    /\ last' = Result("Button.active_low", None, input.active_low, None)
    /\ UNCHANGED <<input, reads>>

(***************************************************************************)
(* Operations on an Axis.                                                  *)
(***************************************************************************)
Remember(rs, r) == IF Len(rs) < 2 THEN Append(rs, r) ELSE <<rs[2], r>>

Axis_value ==
    /\ input.class = "Axis"
    /\ input' = Axis_update(input)
    /\ last' = Result("Axis.value", None, input'.value, None)
    /\ reads' = Remember(reads, [raw |-> input.source.value, ret |-> input'.value])

Axis_source_value ==
    /\ input.class = "Axis"
    /\ last' = Result("Axis.source_value", None, input.source.value, None)
    /\ UNCHANGED <<input, reads>>

\* the raw values a caller may write to the input under test (none unless it
\* is an Axis)
WritableSamples == IF input.class = "Axis" THEN Samples(input) ELSE {}

Axis_source_value_setter(value) ==
    /\ input.class = "Axis"
    /\ IF IsVirtualInput(input.source)
       THEN /\ input' = [input EXCEPT !.source.value = value]
            /\ last' = Result("Axis.source_value=", value, None, None)
       ELSE /\ last' = Result("Axis.source_value=", value, None, "TypeError")
            /\ UNCHANGED input
    /\ UNCHANGED reads

\* Axis.min, Axis.max, Axis.deadband, Axis.invert
Axis_config ==
    /\ input.class = "Axis"
    /\ last' = Result("Axis.config", None,
                      <<input.min, input.max, input.deadband, input.invert < 0>>, None)
    /\ UNCHANGED <<input, reads>>

(***************************************************************************)
(* Operations on a Hat.                                                    *)
(***************************************************************************)
Hat_value ==
    /\ input.class = "Hat"
    /\ input' = Hat_update(input)
    /\ last' = Result("Hat.value", None, input'.value, None)
    /\ UNCHANGED reads

\* Hat.up, Hat.down, Hat.left, Hat.right
Hat_direction(dir) ==
    /\ input.class = "Hat"
    /\ last' = Result("Hat.direction", dir, Pressed(input[dir], input.active_low), None)
    /\ UNCHANGED <<input, reads>>

\* Hat.up_source_value, ... (getters)
Hat_direction_source_value(dir) ==
    /\ input.class = "Hat"
    /\ last' = Result("Hat.direction_source_value", dir, input[dir].value = TRUE, None)
    /\ UNCHANGED <<input, reads>>

\* Hat.up_source_value, ... (setters)
Hat_direction_source_value_setter(dir, value) ==
    /\ input.class = "Hat"
    /\ IF ~IsVirtualInput(input[dir])
       THEN /\ last' = Result("Hat.direction_source_value=", <<dir, value>>, None, "TypeError")
            /\ UNCHANGED input
       ELSE /\ input' = [input EXCEPT ![dir].value = value]
            /\ last' = Result("Hat.direction_source_value=", <<dir, value>>, None, None)
    /\ UNCHANGED reads

Hat_active_low ==
    /\ input.class = "Hat"
    /\ last' = Result("Hat.active_low", None, input.active_low, None)
    /\ UNCHANGED <<input, reads>>

(***************************************************************************)
(* The hardware: the reading of a pin-backed source changes.               *)
(***************************************************************************)
DigitalPinChange ==
    /\ \/ /\ input.class = "Button"
          /\ input.source.kind = Pin
          /\ input' = [input EXCEPT !.source.value = ~input.source.value]
       \/ /\ input.class = "Hat"
          /\ \E dir \in Directions :
                /\ input[dir].kind = Pin
                /\ input' = [input EXCEPT ![dir].value = ~input[dir].value]
    /\ last' = Result("pin", None, None, None)
    /\ UNCHANGED reads

AnalogPinChange ==
    /\ input.class = "Axis"
    /\ input.source.kind = Pin
    /\ \E reading \in Samples(input) :
          /\ reading # input.source.value
          /\ input' = [input EXCEPT !.source.value = reading]
    /\ last' = Result("pin", None, None, None)
    /\ UNCHANGED reads

Next ==
    \/ Button_value
    \/ Button_source_value
    \/ \E value \in BOOLEAN : Button_source_value_setter(value)
    \/ Button_active_low
    \/ Axis_value
    \/ Axis_source_value
    \/ \E value \in WritableSamples : Axis_source_value_setter(value)
    \/ Axis_config
    \/ Hat_value
    \/ \E dir \in Directions : Hat_direction(dir)
    \/ \E dir \in Directions : Hat_direction_source_value(dir)
    \/ \E dir \in Directions, value \in BOOLEAN :
          Hat_direction_source_value_setter(dir, value)
    \/ Hat_active_low
    \/ DigitalPinChange
    \/ AnalogPinChange

Spec == Init /\ [][Next]_vars

(***************************************************************************)
(* Properties.                                                             *)
(***************************************************************************)
IsAxis == input.class = "Axis"
IsHat == input.class = "Hat"
IsButton == input.class = "Button"
AxisRead == IsAxis /\ last.op = "Axis.value"
InDeadband(a, raw) ==
    raw - a.raw_midpoint <= a.deadband /\ a.raw_midpoint - raw <= a.deadband
InRange(a, raw) == raw >= a.min /\ raw <= a.max

\* A second Axis with the same configuration as a, built with a virtual
\* source, whose only history is one write of raw followed by one value read.
PeerValue(a, raw) ==
    Axis_update([Axis_init(VirtualInput, RestRaw, a.deadband, a.min, a.max,
                           a.invert < 0)
                    EXCEPT !.source.value = raw]).value

\* C1: on a virtual-backed Axis a value read returns what any other Axis of
\* the same configuration currently holding the same raw sample returns,
\* whatever was written or read before.
C1_ValueIndependentOfHistory ==
    (AxisRead /\ IsVirtualInput(input.source))
        => last.ret = PeerValue(input, input.source.value)

\* C2: a value read while the raw sample lies within deadband of the midpoint
\* returns exactly 0.
C2_DeadbandReadsZero ==
    (AxisRead /\ InDeadband(input, input.source.value)) => last.ret = 0

\* C3: the cached value of an Axis, and every value a read returns, is an
\* integer in -127 .. 127, for any raw sample including out-of-range ones.
C3_ValueInRange ==
    IsAxis => /\ input.value \in (-127) .. 127
              /\ (last.op = "Axis.value" => last.ret \in (-127) .. 127)

C3_Witness ==
    /\ AxisRead
    /\ input.source.value > input.max
    /\ input.deadband > 0
    /\ last.ret = 127

\* C4: on a non-inverted Axis a value read at a raw sample <= min returns
\* -127 and a value read at a raw sample >= max returns +127.
C4_EndsReachFullOutput ==
    (AxisRead /\ input.invert = 1)
        => /\ (input.source.value <= input.min => last.ret = -127)
           /\ (input.source.value >= input.max => last.ret = 127)

\* C5: for two value reads at raw samples r1 <= r2, both within [min, max]
\* and outside the deadband window, the first value is <= the second on a
\* non-inverted axis and >= the second on an inverted one.
Ordered(a, lo, hi) ==
    (lo.raw <= hi.raw) =>
        IF a.invert = 1 THEN lo.ret <= hi.ret ELSE lo.ret >= hi.ret

C5_MonotonicOutsideDeadband ==
    (/\ IsAxis
     /\ Len(reads) = 2
     /\ \A i \in 1 .. 2 : /\ InRange(input, reads[i].raw)
                          /\ ~InDeadband(input, reads[i].raw))
        => /\ Ordered(input, reads[1], reads[2])
           /\ Ordered(input, reads[2], reads[1])

\* C6: a Hat value read returns the first matching row of the priority table
\* over the four directions, each pressed iff its raw value differs from
\* active_low.
C6_HatPriorityTable ==
    (IsHat /\ last.op = "Hat.value") =>
        LET u == input.up.value # input.active_low
            d == input.down.value # input.active_low
            l == input.left.value # input.active_low
            r == input.right.value # input.active_low
            v == last.ret
        IN  /\ (u /\ r) => v = 1
            /\ (u /\ ~r /\ l) => v = 7
            /\ (u /\ ~r /\ ~l) => v = 0
            /\ (~u /\ d /\ r) => v = 3
            /\ (~u /\ d /\ ~r /\ l) => v = 5
            /\ (~u /\ d /\ ~r /\ ~l) => v = 4
            /\ (~u /\ ~d /\ l) => v = 6
            /\ (~u /\ ~d /\ ~l /\ r) => v = 2
            /\ (~u /\ ~d /\ ~l /\ ~r) => v = 8
            /\ input.value = v

C6_Witness ==
    /\ IsHat
    /\ last.op = "Hat.value"
    /\ input.up.value # input.active_low
    /\ input.down.value # input.active_low
    /\ input.left.value = input.active_low
    /\ input.right.value = input.active_low
    /\ last.ret = 0

\* C7: a write to the raw value of a pin-backed Button, Axis or Hat direction
\* raises TypeError and changes neither the source reading nor any cached
\* value, so later reads see what they would have seen without it.
SetterOps ==
    {"Button.source_value=", "Axis.source_value=", "Hat.direction_source_value="}

\* the source a setter call recorded in res is aimed at
Target(res) ==
    IF res.op = "Hat.direction_source_value=" THEN input[res.arg[1]]
    ELSE input.source

C7_PhysicalWriteRejected ==
    [][(last'.op \in SetterOps /\ Target(last').kind = Pin)
          => /\ last'.raised = "TypeError"
             /\ input' = input
             /\ reads' = reads]_vars

C7_Witness ==
    /\ IsAxis
    /\ last.op = "Axis.source_value="
    /\ last.raised = "TypeError"
    /\ input.source.kind = Pin
    /\ input.value # 0

\* C8: a write of w to a virtual-backed Button, Axis or Hat direction
\* succeeds, and the value read that follows it reflects w: the Button reads
\* (w # active_low), the Hat reads the decode of its directions with the
\* written one updated, the Axis reads the scaled value of w.
C8_VirtualWriteVisible ==
    [][(last.op \in SetterOps /\ IsVirtualInput(Target(last)))
          => /\ last.raised = None
             /\ (last'.op = "Button.value"
                    => last'.ret = (last.arg # input.active_low))
             /\ (last'.op = "Hat.value"
                    => last'.ret = Hat_update(input).value)
             /\ (last'.op = "Axis.value"
                    => last'.ret = Recompute(input, last.arg))]_vars

\* C9: on a non-inverted Axis with deadband > 0 and db_range >= 255 the
\* values read at midpoint + d and midpoint - d (deadband < d <= (max-min)/2)
\* are opposite up to 2, and the value read at the first raw sample above the
\* deadband is at most 2.
Mirrored(a, hi, lo) ==
    (/\ hi.raw > a.raw_midpoint + a.deadband
     /\ hi.raw - a.raw_midpoint <= (a.max - a.min) \div 2
     /\ hi.raw - a.raw_midpoint = a.raw_midpoint - lo.raw)
        => (hi.ret + lo.ret) \in (-2) .. 2

C9_SymmetricAndContinuous ==
    (IsAxis /\ input.invert = 1 /\ input.deadband > 0 /\ input.db_range >= 255)
        => /\ (Len(reads) = 2 => /\ Mirrored(input, reads[1], reads[2])
                                 /\ Mirrored(input, reads[2], reads[1]))
           /\ ((last.op = "Axis.value"
                  /\ input.source.value = input.raw_midpoint + input.deadband + 1)
                 => last.ret <= 2)

\* C10: after a value read the cached raw sample is the raw sample just read
\* and the cached value is the value just returned.
C10_CacheKeyedOnLastRead ==
    AxisRead => /\ input.last_source_value = input.source.value
                /\ input.value = last.ret

====
